---- MODULE Spec2Model ----
(***************************************************************************)
(* HSPiP_CLI_v7.py: the batch/retry pipeline that drives the HSPiP command *)
(* line tool over a list of SMILES, as a state machine (Spec); and         *)
(* get_smiles_InChI_IUPAC_props.py: one call of get_compound_info          *)
(* (SpecLookup).                                                           *)
(*                                                                         *)
(* The script is module-level code around one function,                    *)
(* process_smiles_batch.  The model follows the interpreter through the    *)
(* script: the sentinel filter, the validation pass, the call of           *)
(* process_smiles_batch for the "initial" round (one action per loop       *)
(* header, call of the tool, read of Out.dat, except and finally clause),  *)
(* and the module-level code that follows the call.                        *)
(*                                                                         *)
(* The external parts are nondeterministic: what HSPiP does with Out.dat   *)
(* and which exit status it returns.  RDKit is a pure function of the      *)
(* identifier.  Failures of the script's own file operations (writing the  *)
(* command script, writing a CSV, os.remove) are not modelled.             *)
(***************************************************************************)
EXTENDS Integers, Sequences, FiniteSets, TLC

(* ------------------------------ bounds -------------------------------- *)

\* Longest input list for which every behaviour of the tool is explored.
MaxN == 3
\* batch_size is drawn from 1..MaxBatchSize (line 280 sets it; it is the
\* configurable parameter of process_smiles_batch).
MaxBatchSize == 2
\* Longest input list of the long runs (long enough for the 10-batch
\* checkpoint period; the tool may misbehave for at most one item of them).
LongN == 21

(* ------------------------- program constants -------------------------- *)

max_retries == 3
max_output_retries == 3
\* The literal 10 of "batch_count % 10" (lines 265 and 275).
CheckpointEvery == 10

None == "None"
Sentinel == "CAS number not found"

\* The raw identifiers of the model: two spellings of ethanol, a string
\* RDKit cannot parse, the upstream sentinel, and a string RDKit parses
\* (MolFromSmiles) but cannot write back (MolToSmiles raises).
Identifiers == {"CCO", "OCC", "not a molecule", Sentinel, "parse-only"}

(* ------------------------------- RDKit -------------------------------- *)

\* Chem.MolFromSmiles: the molecule (named by the string it was read
\* from), or None.
MolFromSmiles(s) == IF s \in {"CCO", "OCC", "parse-only"} THEN s ELSE None

\* Chem.MolToSmiles(mol, canonical=True): the canonical string, or "raise".
MolToSmiles(mol) ==
    CASE mol \in {"CCO", "OCC"} -> "CCO"
      [] OTHER -> "raise"

canonicalize_smiles(smiles) ==
    LET mol == MolFromSmiles(smiles) IN
    IF mol = None THEN None
    ELSE IF MolToSmiles(mol) = "raise" THEN None
    ELSE MolToSmiles(mol)

(* ------------------------------ helpers ------------------------------- *)

Min(a, b) == IF a < b THEN a ELSE b

SeqsUpTo(S, n) == UNION {[1..m -> S] : m \in 0..n}

\* The set of second components (original indices) of a list of pairs.
IndicesOf(pairs) == {pairs[j][2] : j \in 1..Len(pairs)}

(* ------------------------------ Out.dat ------------------------------- *)

\* Out.dat is absent, empty, present but unreadable by read_csv / iloc[0]
\* (no data row), or holds the first data row written by the invocation
\* for item `of`.
Absent == [kind |-> "absent", of |-> -1]
Empty == [kind |-> "empty", of |-> -1]
Unparseable == [kind |-> "unparseable", of |-> -1]
Rec(i) == [kind |-> "record", of |-> i]

\* What one invocation for item i may leave in Out.dat.
ToolOutputs(i, cur) == {cur, Rec(i), Empty, Unparseable}

\* What Out.dat may have become when it is looked at again after a wait:
\* unchanged, or the record of the invocation just made.
LateOutputs(i, cur) == {cur, Rec(i)}

VARIABLES
    pc,                     \* position of the interpreter
    error,                  \* the uncaught exception that ended the run
    original_smiles,        \* line 143
    all_smiles,             \* lines 127-133, 146
    valid_smiles_indices,   \* line 144
    invalid_cas_indices,    \* line 145
    invalid_smiles_indices, \* line 151 (module-level list)
    valid_smiles,           \* line 152
    batch_size,             \* line 280
    \* locals of process_smiles_batch
    smiles_list, round_desc, all_hsp_full, failed_output_smiles,
    batch_count, batch_start, batch, k,
    smi, original_index, success, retry, output_retry,
    canon_smi, batch_file_path, after,
    \* the file system
    script_files,           \* temp_hspip_<i>.bat files that exist
    out_dat,                \* Out.dat in the HSPiP directory
    files,                  \* the output tables on disk, by name
    \* the environment assumption and the run's history
    reliable,               \* items for which the tool is assumed to work
    calls,                  \* calls of process_smiles_batch
    invoked,                \* invocations of the tool
    parsed,                 \* identifiers the validation pass parsed
    outcome,                \* per original index, what the log reports
    checkpoints,            \* the saves of intermediate results
    pauses,                 \* inter-batch pauses taken in this round
    in_flight,              \* tool processes started and not yet waited for
    attempt_log,            \* what the current item has cost so far
    item_delays,            \* clipboard_delay waits taken in this round
    \* get_smiles_InChI_IUPAC_props.py
    lookup                  \* one call of get_compound_info

vars == <<pc, error, original_smiles, all_smiles, valid_smiles_indices,
          invalid_cas_indices, invalid_smiles_indices, valid_smiles,
          batch_size, smiles_list, round_desc, all_hsp_full,
          failed_output_smiles, batch_count, batch_start, batch, k, smi,
          original_index, success, retry, output_retry, canon_smi,
          batch_file_path, after, script_files, out_dat, files,
          reliable, calls, invoked, parsed, outcome, checkpoints,
          pauses, in_flight, attempt_log, item_delays, lookup>>

module_vars == <<original_smiles, all_smiles, valid_smiles_indices,
                 invalid_cas_indices, valid_smiles, batch_size, reliable,
                 parsed, lookup>>

frame_vars == <<smiles_list, round_desc, batch_count, batch_start, batch, k>>

item_vars == <<smi, original_index, success, retry, output_retry, canon_smi,
               batch_file_path, after>>

hist_vars == <<in_flight, attempt_log, item_delays>>

N == Len(original_smiles)

\* The log of an item that has not been attempted yet: invocations made,
\* passes of the read loop made for the last invocation, retry_delay waits
\* taken, and what the last pass of the read loop found.
NewAttemptLog == [invocations |-> 0, reads |-> 0, waits |-> 0, last_read |-> None]

(* ----------------------- result table assembly ------------------------ *)

\* An unfilled slot of ordered_results, and the all-NaN one-row frame.
NoneDf == [kind |-> "none", of |-> -1]
empty_df == [kind |-> "nan", of |-> -1]

\* for df, original_index in all_hsp_full: ordered_results[original_index] = df
RECURSIVE PlaceResults(_, _, _)
PlaceResults(ordered, hsp, j) ==
    IF j > Len(hsp) THEN ordered
    ELSE PlaceResults([ordered EXCEPT ![hsp[j][2] + 1] = hsp[j][1]], hsp, j + 1)

\* save_intermediate_results as it would be if the results were placed by
\* their position in all_hsp_full instead of by original_index.
save_intermediate_results_ByPosition(hsp, orig) ==
    [i \in 1..Len(orig) |->
        <<orig[i], IF i <= Len(hsp) THEN hsp[i][1] ELSE empty_df>>]

\* The table save_intermediate_results writes: one row per original
\* identifier, <<SMILES, property row>>.
save_intermediate_results(hsp, orig) ==
    CHOOSE amHSP \in
        {[i \in 1..Len(orig) |->
             <<orig[i],
               IF ordered_results[i] # NoneDf THEN ordered_results[i]
               ELSE empty_df>>] :
         ordered_results \in
             {PlaceResults([i \in 1..Len(orig) |-> NoneDf], hsp, 1)}} : TRUE

\* The tables the script writes: intermediate_HSP_<timestamp> (lines 115-116),
\* all_HSP_<timestamp> (lines 331-332), all_HSP_<timestamp>_empty (lines
\* 351-352); the .csv and the .xlsx of a name hold the same table.
FileNames == {"intermediate_HSP", "all_HSP", "all_HSP_empty"}
NoFile == [exists |-> FALSE, rows |-> <<>>]
File(rows) == [exists |-> TRUE, rows |-> rows]

(* -------------------- sentinel filter, validation --------------------- *)

\* Lines 144-146.
FilterIndices(smis, keep) ==
    LET F[i \in 0..Len(smis)] ==
            IF i = 0 THEN <<>>
            ELSE IF (smis[i] # Sentinel) = keep THEN Append(F[i - 1], i - 1)
            ELSE F[i - 1]
    IN  F[Len(smis)]

\* Lines 150-164: the loop over the filtered list.  acc holds the two lists
\* the loop appends to and the identifiers handed to MolFromSmiles.
RECURSIVE ValidationPass(_, _, _, _)
ValidationPass(i, smis, vidx, acc) ==
    IF i > Len(smis) THEN acc
    ELSE LET mol == MolFromSmiles(smis[i])
             seen == [acc EXCEPT !.parsed = @ \cup {vidx[i]}]
         IN  IF mol = None
             THEN ValidationPass(i + 1, smis, vidx,
                      [seen EXCEPT !.invalid = Append(@, vidx[i])])
             ELSE ValidationPass(i + 1, smis, vidx,
                      [seen EXCEPT !.valid = Append(@, <<smis[i], vidx[i]>>)])

(* -------------------------------- Init -------------------------------- *)

InitRest ==
    /\ pc = "filter"
    /\ error = None
    /\ all_smiles = original_smiles
    /\ valid_smiles_indices = <<>>
    /\ invalid_cas_indices = <<>>
    /\ invalid_smiles_indices = <<>>
    /\ valid_smiles = <<>>
    /\ batch_size \in 1..MaxBatchSize
    /\ smiles_list = <<>>
    /\ round_desc = None
    /\ all_hsp_full = <<>>
    /\ failed_output_smiles = <<>>
    /\ batch_count = 0
    /\ batch_start = 0
    /\ batch = <<>>
    /\ k = 0
    /\ smi = None
    /\ original_index = -1
    /\ success = FALSE
    /\ retry = 0
    /\ output_retry = 0
    /\ canon_smi = None
    /\ batch_file_path = -1
    /\ after = None
    /\ script_files = {}
    /\ out_dat = Absent
    /\ files = [f \in FileNames |-> NoFile]
    /\ calls = <<>>
    /\ invoked = {}
    /\ parsed = {}
    /\ outcome = [i \in 0..(Len(original_smiles) - 1) |-> "pending"]
    /\ checkpoints = <<>>
    /\ pauses = 0
    /\ in_flight = {}
    /\ attempt_log = NewAttemptLog
    /\ item_delays = 0

\* Every input list of at most MaxN identifiers; nothing is assumed of the
\* tool.
InitShort ==
    /\ original_smiles \in SeqsUpTo(Identifiers, MaxN)
    /\ reliable = {}

\* Long input lists: valid identifiers, but for at most one item, whose
\* identifier is any and for which alone the tool may misbehave.
LongLens == {LongN - 11, LongN - 10, LongN - 1, LongN}

InitLong ==
    \E n \in LongLens, odd \in 0..LongN, id \in Identifiers :
        /\ original_smiles = [i \in 1..n |-> IF i = odd THEN id ELSE "CCO"]
        /\ reliable = (0..(n - 1)) \ {odd - 1}

Init ==
    /\ InitShort \/ InitLong
    /\ InitRest
    /\ lookup = None

(* ------------------------ module-level actions ------------------------ *)

\* Lines 144-146: the sentinel filter.
FilterCAS ==
    /\ pc = "filter"
    /\ valid_smiles_indices' = FilterIndices(all_smiles, TRUE)
    /\ invalid_cas_indices' = FilterIndices(all_smiles, FALSE)
    /\ all_smiles' = SelectSeq(all_smiles, LAMBDA s : s # Sentinel)
    /\ pc' = "validate"
    /\ UNCHANGED <<error, original_smiles, invalid_smiles_indices,
                   valid_smiles, batch_size, reliable, parsed, calls,
                   invoked, outcome, checkpoints, script_files, out_dat,
                   files, all_hsp_full, failed_output_smiles>>
    /\ UNCHANGED <<frame_vars, item_vars, pauses, hist_vars, lookup>>

\* Lines 151-166: the validation pass.
Validate ==
    /\ pc = "validate"
    /\ LET r == ValidationPass(1, all_smiles, valid_smiles_indices,
                    [invalid |-> <<>>, valid |-> <<>>, parsed |-> {}])
       IN  /\ invalid_smiles_indices' = r.invalid
           /\ valid_smiles' = r.valid
           /\ parsed' = r.parsed
    /\ pc' = "call_initial"
    /\ UNCHANGED <<error, original_smiles, all_smiles, valid_smiles_indices,
                   invalid_cas_indices, batch_size, reliable, calls,
                   invoked, outcome, checkpoints, script_files, out_dat,
                   files, all_hsp_full, failed_output_smiles>>
    /\ UNCHANGED <<frame_vars, item_vars, pauses, hist_vars, lookup>>

\* Line 285, and lines 177-179 of the call: process_smiles_batch(valid_smiles,
\* ..., "initial") starts with its own empty lists.
CallInitial ==
    /\ pc = "call_initial"
    /\ smiles_list' = valid_smiles
    /\ round_desc' = "initial"
    /\ all_hsp_full' = <<>>
    /\ failed_output_smiles' = <<>>
    /\ batch_count' = 0
    /\ batch_start' = 0
    /\ calls' = Append(calls, [round |-> "initial",
                               items |-> IndicesOf(valid_smiles)])
    /\ pauses' = 0
    /\ item_delays' = 0
    /\ pc' = "batch_loop"
    /\ UNCHANGED <<error, module_vars, invalid_smiles_indices, batch, k,
                   item_vars, script_files, out_dat, files,
                   invoked, outcome, checkpoints, in_flight, attempt_log>>

(* ----------------------- process_smiles_batch ----------------------- *)

\* AppendResult as it would be if the list were rebound at each success
\* ("all_hsp_full = [(hsp_df, original_index)]") instead of appended to.
AppendResult_Rebind(hsp, row, idx) == <<<<row, idx>>>>

\* Line 222: all_hsp_full.append((hsp_df, original_index)).
AppendResult(hsp, row, idx) == Append(hsp, <<row, idx>>)

\* Line 265: "if batch_count % 10 == 0".
ShouldCheckpoint(bc) == bc % CheckpointEvery = 0

\* ShouldCheckpointAtEnd as it would be if the end of a round always saved.
ShouldCheckpointAtEnd_Always(bc) == TRUE

\* Line 275: "if batch_count % 10 != 0".
ShouldCheckpointAtEnd(bc) == bc % CheckpointEvery # 0

\* Line 270: "if batch_start + batch_size < len(smiles_list)".
ShouldPause(start, size, len) == start + size < len

\* Line 183 as it would be if the slice lost its last element.
Slice_DropLast(list, start, end) == SubSeq(list, start + 1, end - 1)

\* Line 183: smiles_list[batch_start:batch_end].
Slice(list, start, end) == SubSeq(list, start + 1, end)

\* Line 190 as it would be with one attempt too many.
RetryInRange_Inclusive(r) == r <= max_retries

\* Line 190: "for retry in range(max_retries)" has a next value after r
\* values have been used.
RetryInRange(r) == r < max_retries

\* Line 209: "for output_retry in range(max_output_retries)".
ReadInRange(o) == o < max_output_retries

\* Line 205 as it would be if the call returned without waiting for the
\* process it started (Popen instead of run).
subprocess_run_NoWait(running, p) == running

\* Line 205: subprocess.run waits for the process it started: the processes
\* still running when the call returns or raises.
subprocess_run(running, p) == running \ {p}

\* Line 210 as it would be if only the existence of Out.dat were tested.
Ready_ExistsOnly(f) == f.kind # "absent"

\* Line 210: os.path.exists(output_path) and os.path.getsize(output_path) > 0.
Ready(f) == f.kind \notin {"absent", "empty"}

\* Lines 212-221: read_csv and opts.iloc[0] give the first data row, or
\* raise (no data row, or an empty file).
Parses(f) == f.kind = "record"

\* What does not change while process_smiles_batch runs, but for the named
\* exceptions of each action.
env_vars == <<error, module_vars, calls, pauses>>

\* Lines 181-185: the next batch of the round.
NextBatch ==
    /\ pc = "batch_loop"
    /\ batch_start < Len(smiles_list)
    /\ LET batch_end == Min(batch_start + batch_size, Len(smiles_list))
       IN  batch' = Slice(smiles_list, batch_start, batch_end)
    /\ batch_count' = batch_count + 1
    /\ k' = 0
    /\ pc' = "item_loop"
    /\ UNCHANGED <<env_vars, invalid_smiles_indices, smiles_list, round_desc,
                   batch_start, all_hsp_full, failed_output_smiles, item_vars,
                   script_files, out_dat, files, invoked,
                   outcome, checkpoints, hist_vars>>

\* Lines 187-189: the next item of the batch.
NextItem ==
    /\ pc = "item_loop"
    /\ k < Len(batch)
    /\ smi' = batch[k + 1][1]
    /\ original_index' = batch[k + 1][2]
    /\ success' = FALSE
    /\ retry' = 0
    /\ attempt_log' = NewAttemptLog
    /\ pc' = "retry_loop"
    /\ UNCHANGED <<env_vars, invalid_smiles_indices, frame_vars,
                   all_hsp_full, failed_output_smiles, output_retry,
                   canon_smi, batch_file_path, after, script_files, out_dat,
                   files, invoked, outcome, checkpoints, in_flight,
                   item_delays>>

\* Lines 190-202: one attempt begins.  Canonicalization fails (the index is
\* recorded as invalid and the loop is left through the finally clause), or
\* the script of the attempt is written.
BeginAttempt ==
    /\ pc = "retry_loop"
    /\ RetryInRange(retry)
    /\ LET canon == canonicalize_smiles(smi) IN
       IF canon = None
       THEN /\ invalid_smiles_indices' =
                   Append(invalid_smiles_indices, original_index)
            /\ outcome' = [outcome EXCEPT ![original_index] = "canon_failed"]
            /\ after' = "break"
            /\ pc' = "finally"
            /\ UNCHANGED <<canon_smi, batch_file_path, script_files>>
       ELSE /\ canon_smi' = canon
            /\ batch_file_path' = original_index
            /\ script_files' = script_files \cup {original_index}
            /\ pc' = "invoke"
            /\ UNCHANGED <<invalid_smiles_indices, outcome, after>>
    /\ UNCHANGED <<env_vars, frame_vars, all_hsp_full, failed_output_smiles,
                   smi, original_index, success, retry, output_retry,
                   out_dat, files, invoked, checkpoints, hist_vars>>

\* Line 205: subprocess.run starts the shell that runs the script.
Launch ==
    /\ pc = "invoke"
    /\ in_flight' = in_flight \cup {<<original_index, retry>>}
    /\ pc' = "wait"
    /\ UNCHANGED <<env_vars, invalid_smiles_indices, frame_vars,
                   all_hsp_full, failed_output_smiles, item_vars,
                   script_files, out_dat, files, invoked, outcome,
                   checkpoints, attempt_log, item_delays>>

\* Line 205: subprocess.run(..., check=True) returns.  The tool has left
\* something in Out.dat and exited with status 0, or the call raises
\* (non-zero status, or the script could not be started).
Invoke ==
    /\ pc = "wait"
    /\ in_flight' = subprocess_run(in_flight, <<original_index, retry>>)
    /\ attempt_log' = [attempt_log EXCEPT !.invocations = @ + 1, !.reads = 0]
    /\ UNCHANGED item_delays
    /\ \E status \in {0, 1}, f \in ToolOutputs(original_index, out_dat) :
          /\ original_index \in reliable =>
                 status = 0 /\ f = Rec(original_index)
          /\ out_dat' = f
          /\ IF status = 0
             THEN pc' = "read_loop" /\ output_retry' = 0
             ELSE pc' = "except" /\ UNCHANGED output_retry
    /\ invoked' = invoked \cup {<<round_desc, original_index, canon_smi>>}
    /\ UNCHANGED <<env_vars, invalid_smiles_indices, frame_vars,
                   all_hsp_full, failed_output_smiles, smi, original_index,
                   success, retry, canon_smi, batch_file_path, after,
                   script_files, files, outcome, checkpoints>>

\* Lines 209-231: one pass of the read loop.  Out.dat exists, is not empty
\* and is parsed: its first data row is appended with the item's index and
\* the loop is left.  Otherwise the pass waits retry_delay and the loop goes
\* on while passes remain.
ReadOutput ==
    /\ pc = "read_loop"
    /\ ReadInRange(output_retry)
    /\ \E f \in LateOutputs(original_index, out_dat) :
          /\ original_index \in reliable => f = out_dat
          /\ out_dat' = f
          /\ IF Ready(f) /\ Parses(f)
             THEN /\ all_hsp_full' = AppendResult(all_hsp_full, f, original_index)
                  /\ success' = TRUE
                  /\ outcome' = [outcome EXCEPT ![original_index] = "success"]
                  /\ attempt_log' = [attempt_log EXCEPT !.reads = @ + 1,
                                         !.last_read = "record"]
                  /\ pc' = "after_read"
                  /\ UNCHANGED output_retry
             ELSE /\ output_retry' = output_retry + 1
                  /\ attempt_log' = [attempt_log EXCEPT !.reads = @ + 1,
                         !.waits = @ + 1,
                         !.last_read = IF Ready(f) THEN "parse_error"
                                       ELSE "not_ready"]
                  /\ pc' = IF ReadInRange(output_retry + 1)
                           THEN "read_loop" ELSE "after_read"
                  /\ UNCHANGED <<all_hsp_full, success, outcome>>
    /\ UNCHANGED <<env_vars, invalid_smiles_indices, frame_vars,
                   failed_output_smiles, smi, original_index, retry,
                   canon_smi, batch_file_path, after, script_files,
                   files, invoked, checkpoints, in_flight, item_delays>>

\* Line 241 as it would be if exhausted reads let the retry loop go on.
AfterExhaustedReads_Continue == "continue"

\* Line 241: the "break" that follows "Max output retries reached".
AfterExhaustedReads == "break"

\* Lines 233-241: after the read loop, both branches leave the retry loop.
AfterRead ==
    /\ pc = "after_read"
    /\ IF success
       THEN UNCHANGED <<failed_output_smiles, invalid_smiles_indices, outcome>>
       ELSE /\ outcome' = [outcome EXCEPT ![original_index] = "read_exhausted"]
            /\ IF round_desc = "initial"
               THEN /\ failed_output_smiles' =
                         Append(failed_output_smiles, <<smi, original_index>>)
                    /\ UNCHANGED invalid_smiles_indices
               ELSE /\ invalid_smiles_indices' =
                         Append(invalid_smiles_indices, original_index)
                    /\ UNCHANGED failed_output_smiles
    /\ after' = IF success THEN "break" ELSE AfterExhaustedReads
    /\ pc' = "finally"
    /\ UNCHANGED <<env_vars, frame_vars, all_hsp_full, smi, original_index,
                   success, retry, output_retry, canon_smi, batch_file_path,
                   script_files, out_dat, files, invoked,
                   checkpoints, hist_vars>>

\* Lines 242-244: the except clause logs, waits retry_delay and lets the
\* retry loop go on.
Except ==
    /\ pc = "except"
    /\ after' = "continue"
    /\ attempt_log' = [attempt_log EXCEPT !.waits = @ + 1]
    /\ pc' = "finally"
    /\ UNCHANGED <<env_vars, invalid_smiles_indices, frame_vars,
                   all_hsp_full, failed_output_smiles, smi, original_index,
                   success, retry, output_retry, canon_smi, batch_file_path,
                   script_files, out_dat, files, invoked,
                   outcome, checkpoints, in_flight, item_delays>>

\* Lines 245-248: the finally clause.  batch_file_path is a local that is
\* bound by line 200 only: read before that, it raises UnboundLocalError,
\* which nothing catches.  Otherwise the file it names is removed if it
\* exists, and control goes where the try block was going.
Finally ==
    /\ pc = "finally"
    /\ IF batch_file_path = -1
       THEN /\ error' = "UnboundLocalError"
            /\ pc' = "aborted"
            /\ UNCHANGED <<script_files, retry, outcome>>
       ELSE /\ script_files' = script_files \ {batch_file_path}
            /\ UNCHANGED error
            /\ IF after = "break"
               THEN pc' = "after_retries" /\ UNCHANGED <<retry, outcome>>
               ELSE /\ retry' = retry + 1
                    /\ pc' = IF RetryInRange(retry + 1)
                             THEN "retry_loop" ELSE "after_retries"
                    /\ outcome' = IF RetryInRange(retry + 1) THEN outcome
                                  ELSE [outcome EXCEPT ![original_index] =
                                            "invocation_failed"]
    /\ UNCHANGED <<module_vars, calls, pauses, invalid_smiles_indices,
                   frame_vars,
                   all_hsp_full, failed_output_smiles, smi, original_index,
                   success, output_retry, canon_smi, batch_file_path, after,
                   out_dat, files, invoked, checkpoints, hist_vars>>

\* Lines 250-262: after the retry loop.  An item without success is put on
\* failed_output_smiles in the initial round and on invalid_smiles_indices
\* otherwise; then the clipboard is cleared and clipboard_delay waited.
AfterRetries ==
    /\ pc = "after_retries"
    /\ IF success
       THEN UNCHANGED <<failed_output_smiles, invalid_smiles_indices>>
       ELSE IF round_desc = "initial"
            THEN /\ failed_output_smiles' =
                      Append(failed_output_smiles, <<smi, original_index>>)
                 /\ UNCHANGED invalid_smiles_indices
            ELSE /\ invalid_smiles_indices' =
                      Append(invalid_smiles_indices, original_index)
                 /\ UNCHANGED failed_output_smiles
    /\ item_delays' = item_delays + 1
    /\ k' = k + 1
    /\ pc' = "item_loop"
    /\ UNCHANGED <<env_vars, smiles_list, round_desc, batch_count,
                   batch_start, batch, all_hsp_full, item_vars, script_files,
                   out_dat, files, invoked, outcome, checkpoints, in_flight,
                   attempt_log>>

\* Lines 264-272: after the last item of a batch.  Every CheckpointEvery-th
\* batch saves the intermediate results; a pause follows unless the batch
\* was the last one.
EndBatch ==
    /\ pc = "item_loop"
    /\ k = Len(batch)
    /\ IF ShouldCheckpoint(batch_count)
       THEN /\ files' = [files EXCEPT !["intermediate_HSP"] =
                   File(save_intermediate_results(all_hsp_full, original_smiles))]
            /\ checkpoints' = Append(checkpoints,
                   [round |-> round_desc, batch_count |-> batch_count,
                    at |-> "batch"])
       ELSE UNCHANGED <<files, checkpoints>>
    /\ pauses' = IF ShouldPause(batch_start, batch_size, Len(smiles_list))
                  THEN pauses + 1 ELSE pauses
    /\ batch_start' = batch_start + batch_size
    /\ pc' = "batch_loop"
    /\ UNCHANGED <<error, module_vars, calls, invalid_smiles_indices, smiles_list, round_desc,
                   batch_count, batch, k, all_hsp_full, failed_output_smiles,
                   item_vars, script_files, out_dat, invoked, outcome,
                   hist_vars>>

\* Lines 274-277, and the return: the save at the end of the round.
EndRound ==
    /\ pc = "batch_loop"
    /\ batch_start >= Len(smiles_list)
    /\ IF ShouldCheckpointAtEnd(batch_count)
       THEN /\ files' = [files EXCEPT !["intermediate_HSP"] =
                   File(save_intermediate_results(all_hsp_full, original_smiles))]
            /\ checkpoints' = Append(checkpoints,
                   [round |-> round_desc, batch_count |-> batch_count,
                    at |-> "round_end"])
       ELSE UNCHANGED <<files, checkpoints>>
    /\ pc' = IF round_desc = "initial" THEN "second_round" ELSE "assemble"
    /\ UNCHANGED <<env_vars, invalid_smiles_indices, frame_vars,
                   all_hsp_full, failed_output_smiles, item_vars,
                   script_files, out_dat, invoked, outcome, hist_vars>>

(* ---------------------- after process_smiles_batch -------------------- *)

\* Line 288: "if failed_output_smiles:".  The name is bound only as a local
\* of process_smiles_batch (line 178), never at module level: the lookup
\* raises NameError, which nothing catches, and the run ends there.
SecondRound ==
    /\ pc = "second_round"
    /\ error' = "NameError"
    /\ pc' = "aborted"
    /\ UNCHANGED <<module_vars, calls, pauses, invalid_smiles_indices,
                   frame_vars,
                   all_hsp_full, failed_output_smiles, item_vars,
                   script_files, out_dat, files, invoked,
                   outcome, checkpoints, hist_vars>>

Next ==
    \/ FilterCAS
    \/ Validate
    \/ CallInitial
    \/ NextBatch
    \/ NextItem
    \/ BeginAttempt
    \/ Launch
    \/ Invoke
    \/ ReadOutput
    \/ AfterRead
    \/ Except
    \/ Finally
    \/ AfterRetries
    \/ EndBatch
    \/ EndRound
    \/ SecondRound

Spec == Init /\ [][Next]_vars

(* ------------- get_smiles_InChI_IUPAC_props.py: get_compound_info ------------- *)

\* The CAS numbers of the model.
CasNumbers == {"64-17-5", "50-00-0", "0-00-0"}

\* What a request gives: requests.get raises ("network"), response.json()
\* raises ("bad_json"), or the decoded JSON document, by its shape.
Reply(kind, val) == [kind |-> kind, val |-> val]

\* Replies to the CID request: a document without IdentifierList ("fault"),
\* an IdentifierList without CID ("no_cid"), an empty CID list, a document
\* that is not a container ("scalar"), or a CID.
CidReplies ==
    {Reply(x, None) : x \in {"network", "bad_json", "fault", "no_cid",
                              "empty_list", "scalar"}}
        \cup {Reply("ok", c) : c \in {"702", "712"}}

\* Replies to the property request: a document without PropertyTable, an
\* empty Properties list, or the first entry of Properties.
PropertyReplies ==
    {Reply(x, None) : x \in {"network", "bad_json", "fault", "empty_list"}}
        \cup {Reply("ok", ("MolecularFormula" :> "C2H6O")),
              Reply("ok", ("MolecularFormula" :> "CH2O") @@ ("XLogP" :> "1.2"))}

\* Replies to a section request: no Record ("absent"), a Record without
\* Section, a section under another heading, a section entry without
\* TOCHeading, an Information entry with an empty StringWithMarkup list, an
\* entry with an empty name or value ("blank"), or name/value pairs.
SectionReplies ==
    {Reply(x, None) : x \in {"network", "bad_json", "absent", "no_section",
                              "other_heading", "no_heading", "empty_markup",
                              "blank"}}
        \cup {Reply("pairs", ("Boiling Point" :> "78 C")),
              Reply("pairs", ("XLogP" :> "0.3"))}

\* The exception a reply makes the code raise, or None.
Raises(stage, r) ==
    CASE r.kind = "network" -> "RequestException"
      [] r.kind = "bad_json" -> "JSONDecodeError"
      [] stage = "cid" /\ r.kind = "empty_list" -> "IndexError"
      [] stage = "cid" /\ r.kind = "scalar" -> "TypeError"
      [] stage = "property" /\ r.kind = "empty_list" -> "IndexError"
      [] stage = "section" /\ r.kind = "no_heading" -> "KeyError"
      [] stage = "section" /\ r.kind = "empty_markup" -> "IndexError"
      [] OTHER -> None

ErrorValue(msg) == ("Error" :> msg)

\* Lines 77-82 as they would be without the last clause, "except Exception".
Handler_NoCatchAll(exc) ==
    CASE exc = "RequestException" ->
             {[caught |-> TRUE, value |-> ErrorValue("Network error")]}
      [] exc = "JSONDecodeError" ->
             {[caught |-> TRUE, value |-> ErrorValue("Network error")],
              [caught |-> TRUE, value |-> ErrorValue("Failed to parse JSON response")]}
      [] OTHER -> {[caught |-> FALSE, value |-> None]}

\* Lines 77-82: the except clauses.  The exception of response.json() is a
\* json.JSONDecodeError and, with recent versions of requests, a
\* RequestException as well: either of the first two clauses may take it.
Handler(exc) ==
    CASE exc = "RequestException" ->
             {[caught |-> TRUE, value |-> ErrorValue("Network error")]}
      [] exc = "JSONDecodeError" ->
             {[caught |-> TRUE, value |-> ErrorValue("Network error")],
              [caught |-> TRUE, value |-> ErrorValue("Failed to parse JSON response")]}
      [] OTHER -> {[caught |-> TRUE, value |-> ErrorValue("Unexpected error")]}

\* The ways the call may end when the try block raises exc: a handler
\* returns its value, or the exception leaves the function.
EndByException(exc) ==
    {IF h.caught THEN [result |-> h.value, raised |-> None]
     ELSE [result |-> <<>>, raised |-> exc] : h \in Handler(exc)}

\* The call ends by a return statement.
Return(value) == [result |-> value, raised |-> None]

lookup_frame == <<pc, error, original_smiles, all_smiles, valid_smiles_indices,
                  invalid_cas_indices, invalid_smiles_indices, valid_smiles,
                  batch_size, smiles_list, round_desc, all_hsp_full,
                  failed_output_smiles, batch_count, batch_start, batch, k,
                  item_vars, script_files, out_dat, files, reliable, calls,
                  invoked, parsed, outcome, checkpoints, pauses, hist_vars>>

\* The state in which get_compound_info(cas_number) has been called.
InitLookup ==
    /\ original_smiles = <<>>
    /\ reliable = {}
    /\ InitRest
    /\ batch_size = 1
    /\ \E cas \in CasNumbers :
          lookup = [pc |-> "cid", cas |-> cas, cid |-> None,
                    properties |-> <<>>, fetched |-> <<>>, section |-> 1,
                    requests |-> <<>>, replies |-> <<>>,
                    result |-> <<>>, raised |-> None]

\* One more request has been made and answered.
Asked(what, r) ==
    [lookup EXCEPT !.requests = Append(@, what), !.replies = Append(@, r.kind)]

\* End of the call, with how it ends.
Ended(l, end) ==
    [l EXCEPT !.pc = "done", !.result = end.result, !.raised = end.raised]

\* Lines 38-46: the CID request.
GetCID ==
    /\ lookup.pc = "cid"
    /\ \E r \in CidReplies :
          LET l == Asked("cid", r)
              exc == Raises("cid", r)
          IN  IF exc # None
              THEN \E end \in EndByException(exc) : lookup' = Ended(l, end)
              ELSE IF r.kind \in {"fault", "no_cid"}
              THEN lookup' = Ended(l, Return(ErrorValue("not found in PubChem")))
              ELSE lookup' = [l EXCEPT !.cid = r.val, !.pc = "property"]
    /\ UNCHANGED lookup_frame

\* Lines 48-56: the property request.
GetProperties ==
    /\ lookup.pc = "property"
    /\ \E r \in PropertyReplies :
          LET l == Asked("property", r)
              exc == Raises("property", r)
          IN  IF exc # None
              THEN \E end \in EndByException(exc) : lookup' = Ended(l, end)
              ELSE IF r.kind = "fault"
              THEN lookup' = Ended(l, Return(ErrorValue("Failed to retrieve properties")))
              ELSE lookup' = [l EXCEPT !.properties = r.val,
                                      !.fetched = r.val, !.pc = "section"]
    /\ UNCHANGED lookup_frame

\* Lines 58-75: the request for one of the two sections, the scan of its
\* reply and, after the second section, "return properties".
GetSection ==
    /\ lookup.pc = "section"
    /\ \E r \in SectionReplies :
          LET l == Asked("section", r)
              exc == Raises("section", r)
              props == IF r.kind = "pairs" THEN r.val @@ lookup.properties
                       ELSE lookup.properties
          IN  IF exc # None
              THEN \E end \in EndByException(exc) : lookup' = Ended(l, end)
              ELSE IF lookup.section = 2
              THEN lookup' = Ended([l EXCEPT !.properties = props], Return(props))
              ELSE lookup' = [l EXCEPT !.properties = props, !.section = 2]
    /\ UNCHANGED lookup_frame

NextLookup ==
    \/ GetCID
    \/ GetProperties
    \/ GetSection

SpecLookup == InitLookup /\ [][NextLookup]_vars

(* ------------------------------ the run ------------------------------ *)

\* The interpreter has stopped.
RunEnded == pc = "aborted"

\* The final tables on disk.
FinalTables ==
    {files[n].rows : n \in {n \in {"all_HSP", "all_HSP_empty"} : files[n].exists}}

\* The identifiers the validation pass sets aside: the sentinel, and what
\* MolFromSmiles does not parse.
Skipped(i) ==
    \/ original_smiles[i + 1] = Sentinel
    \/ MolFromSmiles(original_smiles[i + 1]) = None

\* The table the results gathered so far assemble to.
ResultTable == save_intermediate_results(all_hsp_full, original_smiles)

\* Number of batches of the round: ceil(len(smiles_list) / batch_size).
Batches == (Len(smiles_list) + batch_size - 1) \div batch_size

\* The round is inside batch number batch_count (its end-of-batch code has
\* not run yet).
InBatch ==
    \/ pc \in {"item_loop", "retry_loop", "invoke", "wait", "read_loop",
               "after_read", "except", "finally", "after_retries"}
    \/ error = "UnboundLocalError"

\* process_smiles_batch has returned.
RoundOver == pc = "second_round" \/ error = "NameError"

(* ------------------------------- claims ------------------------------- *)

\* C1 (as claimed): when the run has ended, a final table is on disk; it has
\* exactly N rows and row i carries the i-th original identifier, so that
\* every original index 0..N-1 appears exactly once.
C1_FinalTableComplete ==
    RunEnded =>
        /\ FinalTables # {}
        /\ \A t \in FinalTables :
              /\ Len(t) = N
              /\ \A i \in 1..N : t[i][1] = original_smiles[i]

\* C2 (as claimed): no step of the run raises an exception that ends it
\* before the final table is written, whatever the tool does.
C2_NoAbort == error = None

\* C3 (as claimed): an item whose reads were exhausted in the initial round
\* is absent from the round's successes, and by the end of the run it has been
\* part of the input of a "retry" call of process_smiles_batch.
C3_ExhaustedIsRetried ==
    \A i \in DOMAIN outcome :
        outcome[i] = "read_exhausted" =>
            /\ i \notin IndicesOf(all_hsp_full)
            /\ RunEnded =>
                  \E j \in 1..Len(calls) :
                      calls[j].round = "retry" /\ i \in calls[j].items

\* C4 (as claimed): an item that failed the initial round because all of its
\* max_retries invocations failed is dropped: it is not on the list gathered
\* for the retry round.
C4_InvocationFailuresDropped ==
    \A j \in 1..Len(failed_output_smiles) :
        outcome[failed_output_smiles[j][2]] # "invocation_failed"

\* The tool is invoked only for identifiers the validation pass kept, and the
\* validation pass never hands the sentinel to MolFromSmiles.
NeverDispatchedSkipped ==
    /\ \A inv \in invoked : ~Skipped(inv[2])
    /\ \A i \in parsed : original_smiles[i + 1] # Sentinel

\* C6 (as claimed): no sentinel and no format-invalid identifier is passed to
\* the tool, the sentinel is never parsed, and when the run has ended each
\* such row is in the output table, at its original position, all-missing.
C6_SkippedRowsKept ==
    /\ NeverDispatchedSkipped
    /\ RunEnded =>
          \A i \in 0..(N - 1) :
              Skipped(i) =>
                  \E t \in FinalTables :
                      Len(t) = N /\ t[i + 1] = <<original_smiles[i + 1], empty_df>>

SnapshotIsFull ==
    LET t == files["intermediate_HSP"] IN
    /\ t.exists
    /\ Len(t.rows) = N
    /\ \A i \in 1..N :
          /\ t.rows[i][1] = original_smiles[i]
          /\ IF outcome[i - 1] = "success"
             THEN /\ t.rows[i][2].kind = "record"
                  /\ \E j \in 1..Len(all_hsp_full) :
                        all_hsp_full[j] = <<t.rows[i][2], i - 1>>
             ELSE t.rows[i][2] = empty_df

ExpectedCheckpoints ==
    LET done == IF InBatch THEN batch_count - 1 ELSE batch_count
        mid == [j \in 1..(done \div 10) |->
                   [round |-> round_desc, batch_count |-> 10 * j, at |-> "batch"]]
    IN  IF RoundOver /\ Batches % 10 # 0
        THEN Append(mid, [round |-> round_desc, batch_count |-> Batches,
                          at |-> "round_end"])
        ELSE mid

\* C9: the saves made so far are exactly those of the cadence, and a round
\* that is over has processed all its batches.
C9_Cadence ==
    /\ checkpoints = ExpectedCheckpoints
    /\ RoundOver => batch_count = Batches

\* C9 witness: a round of 11 batches is over, with a save after batch 10 and
\* one after batch 11.
C9_Witness ==
    /\ RoundOver
    /\ Batches = 11
    /\ Len(checkpoints) = 2
    /\ checkpoints[1].batch_count = 10
    /\ checkpoints[2].batch_count = 11

\* C10 (as claimed): the finally clause never ends the run, and when the
\* next attempt or the code after the retry loop is reached no temporary
\* script exists.
C10_CleanupUnconditional ==
    [][/\ pc = "finally" => pc' # "aborted"
       /\ pc' \in {"retry_loop", "after_retries"} => script_files' = {}]_vars

\* C11 (as claimed): when the run over a list that is not empty has ended
\* without a single success, the table all_HSP_<timestamp>_empty is on disk,
\* with N rows in original order and every property field missing; and the
\* "_empty" table is on disk at the end of a run exactly when the run had no
\* success.
C11_EmptyVariantWritten ==
    (RunEnded /\ N >= 1) =>
        /\ all_hsp_full = <<>> =>
              /\ files["all_HSP_empty"].exists
              /\ files["all_HSP_empty"].rows =
                     [i \in 1..N |-> <<original_smiles[i], empty_df>>]
        /\ files["all_HSP_empty"].exists <=> all_hsp_full = <<>>

\* The output of an invocation is being read.
Reading == pc \in {"read_loop", "after_read"}

\* C12: at most one tool process exists at any time, none exists while output
\* is being read, and a process is started only when no other exists and no
\* reading is under way.
C12_OneInFlight ==
    [][/\ Cardinality(in_flight') <= 1
       /\ Reading' => in_flight' = {}
       /\ in_flight' \ in_flight # {} => in_flight = {} /\ ~Reading]_vars

\* C12 witness: a process is running for a second attempt of an item, after
\* an earlier item was invoked and read.
C12_Witness ==
    /\ in_flight = {<<original_index, retry>>}
    /\ retry >= 1
    /\ \E inv \in invoked : inv[2] # original_index
    /\ Len(all_hsp_full) >= 1

\* The mapping carries an Error entry.
IsError(m) == "Error" \in DOMAIN m

\* A reply for which the call goes on without an exception.
Quiet(stage, kind) == Raises(stage, Reply(kind, None)) = None

\* C13: when get_compound_info has ended, no exception has left it and it has
\* returned a mapping with an Error entry or the property mapping; after a
\* lookup without CID mapping the only request made is the lookup; and when
\* the property request succeeded and no section request raised, the names of
\* the property request are all in the result, which is the property mapping
\* itself when both sections are absent.
C13_NeverPropagates ==
    lookup.pc = "done" =>
        /\ lookup.raised = None
        /\ \/ IsError(lookup.result)
           \/ /\ lookup.fetched # <<>>
              /\ DOMAIN lookup.fetched \subseteq DOMAIN lookup.result
        /\ lookup.replies[1] \in {"fault", "no_cid"} =>
               lookup.requests = <<"cid">> /\ IsError(lookup.result)
        /\ ( /\ Len(lookup.replies) = 4
             /\ Quiet("section", lookup.replies[3])
             /\ Quiet("section", lookup.replies[4]) ) =>
               /\ ~IsError(lookup.result)
               /\ DOMAIN lookup.fetched \subseteq DOMAIN lookup.result
               /\ ( /\ lookup.replies[3] \in {"absent", "no_section"}
                    /\ lookup.replies[4] \in {"absent", "no_section"} ) =>
                      lookup.result = lookup.fetched

\* C13 witness: the first section was absent, the second gave a pair, and
\* the call returned the fetched properties with the pair added.
C13_Witness ==
    /\ lookup.pc = "done"
    /\ lookup.replies = <<"ok", "ok", "absent", "pairs">>
    /\ ~IsError(lookup.result)
    /\ "Boiling Point" \in DOMAIN lookup.result
    /\ "MolecularFormula" \in DOMAIN lookup.result

\* C14 (as claimed): an item whose canonicalization succeeds is recorded as
\* failed for the round only after max_retries invocations: no failure of an
\* invocation or of its reads ends the retry loop early.
C14_FailedOnlyAfterAllAttempts ==
    ( /\ pc = "after_retries"
      /\ ~success
      /\ canonicalize_smiles(smi) # None ) =>
        attempt_log.invocations = max_retries

\* C14 (amended): a failed invocation waits retry_delay, consumes exactly one
\* of the item's max_retries attempts and is followed by a further attempt
\* while attempts remain; a read that finds the output absent, empty or
\* unparseable waits retry_delay and consumes one of the invocation's reads,
\* not an attempt; exhausted reads end the retry
\* loop; and an item that canonicalizes reaches the end of its retry loop
\* without success only after max_retries failed invocations or after an
\* invocation whose max_output_retries reads all failed.
C14_RetryAccounting ==
    [][/\ pc = "except" =>
              /\ attempt_log'.waits = attempt_log.waits + 1
              /\ pc' = "finally" /\ after' = "continue"
       /\ (pc = "finally" /\ after = "continue") =>
              /\ retry' = retry + 1
              /\ pc' = IF retry + 1 < max_retries THEN "retry_loop"
                       ELSE "after_retries"
       /\ (pc = "read_loop" /\ ~success') =>
              /\ attempt_log'.waits = attempt_log.waits + 1
              /\ output_retry' = output_retry + 1
              /\ retry' = retry
       /\ (pc = "finally" /\ outcome[original_index] = "read_exhausted") =>
              /\ pc' = "after_retries"
              /\ attempt_log.invocations = retry + 1
       /\ ( /\ pc' = "after_retries"
            /\ ~success'
            /\ canonicalize_smiles(smi') # None ) =>
              \/ /\ retry' = max_retries
                 /\ attempt_log'.invocations = max_retries
                 /\ outcome'[original_index'] = "invocation_failed"
              \/ /\ outcome'[original_index'] = "read_exhausted"
                 /\ attempt_log'.reads = max_output_retries
                 /\ output_retry' = max_output_retries]_vars

\* C14 witness: an item is at the end of its retry loop without success
\* after one failed invocation and a second invocation whose three reads
\* failed: four waits, two attempts.
C14_Witness ==
    /\ pc = "after_retries"
    /\ ~success
    /\ outcome[original_index] = "read_exhausted"
    /\ attempt_log.invocations = 2
    /\ attempt_log.waits = 4
    /\ retry = 1

\* Number of records the list of results holds for original index i.
RecordsOf(hsp, i) == Cardinality({j \in 1..Len(hsp) : hsp[j][2] = i})

\* C15: for every item the tool is invoked at most max_retries times and the
\* output of an invocation is read at most max_output_retries times; once an
\* item has a successful read, no invocation and no read is made for it any
\* more; and an index has one record if it succeeded and none otherwise.
C15_RetryBounds ==
    [][/\ attempt_log'.invocations <= max_retries
       /\ attempt_log'.reads <= max_output_retries
       /\ (success /\ pc # "item_loop") =>
              /\ attempt_log' = attempt_log
              /\ invoked' = invoked
              /\ all_hsp_full' = all_hsp_full
              /\ pc' \notin {"invoke", "wait", "read_loop", "retry_loop"}
       /\ all_hsp_full' # all_hsp_full =>
              \A i \in 0..(N - 1) :
                  RecordsOf(all_hsp_full', i) =
                      IF outcome'[i] = "success" THEN 1 ELSE 0]_vars

\* C15 witness: an item has succeeded at the third read of its third
\* invocation.
C15_Witness ==
    /\ pc = "after_retries"
    /\ success
    /\ attempt_log.invocations = max_retries
    /\ attempt_log.reads = max_output_retries
    /\ RecordsOf(all_hsp_full, original_index) = 1

\* C16 (as claimed): an item whose canonicalization failed at dispatch has had
\* no invocation, is on the list of invalid indices, is not on the list
\* gathered for the retry round, and the run has not been aborted by it.
C16_CanonFailureIsInvalid ==
    \A i \in DOMAIN outcome :
        outcome[i] = "canon_failed" =>
            /\ \A inv \in invoked : inv[2] # i
            /\ \E j \in 1..Len(invalid_smiles_indices) :
                   invalid_smiles_indices[j] = i
            /\ i \notin IndicesOf(failed_output_smiles)
            /\ error # "UnboundLocalError"

\* What a list of items, taken one after the other whatever the batches, puts
\* on the list of results and on the list gathered for the retry round, given
\* the outcome of each item.
RECURSIVE FlatResults(_, _, _)
FlatResults(items, outc, j) ==
    IF j > Len(items) THEN <<>>
    ELSE (IF outc[items[j][2]] = "success" THEN <<items[j][2]>> ELSE <<>>)
             \o FlatResults(items, outc, j + 1)

RECURSIVE FlatFailed(_, _, _)
FlatFailed(items, outc, j) ==
    IF j > Len(items) THEN <<>>
    ELSE (CASE outc[items[j][2]] = "read_exhausted" -> <<items[j], items[j]>>
            [] outc[items[j][2]] \in {"invocation_failed", "canon_failed"} ->
                   <<items[j]>>
            [] OTHER -> <<>>)
             \o FlatFailed(items, outc, j + 1)

\* The interpreter is between two items of the round, or after the last.
BetweenItems == pc \in {"item_loop", "batch_loop", "second_round"}

\* C17: the round is the loop over smiles_list, item after item in list
\* order, whatever batch_size is: the item taken next is the one after the
\* items done; only the item in hand changes its outcome; between items the
\* results and the list gathered for the retry round are those of the items
\* done, in list order; the round ends when all items are done, and the table
\* it leaves on disk is the table of all results.
C17_BatchFree ==
    [][/\ (pc = "item_loop" /\ pc' = "retry_loop") =>
              <<smi', original_index'>> = smiles_list[item_delays + 1]
       /\ \A i \in 0..(N - 1) :
              outcome'[i] # outcome[i] =>
                  /\ i = original_index
                  /\ smiles_list[item_delays + 1][2] = i
       /\ BetweenItems' =>
              \A done \in {SubSeq(smiles_list', 1, item_delays')} :
                  /\ [j \in 1..Len(all_hsp_full') |-> all_hsp_full'[j][2]] =
                         FlatResults(done, outcome', 1)
                  /\ failed_output_smiles' = FlatFailed(done, outcome', 1)
       /\ pc' = "second_round" =>
              /\ item_delays' = Len(smiles_list')
              /\ Len(smiles_list') >= 1 =>
                     files'["intermediate_HSP"] = File(ResultTable')]_vars

\* C17 witness: a round of three items in batches of two is over, with a
\* success in the second batch and a failure in the first.
C17_Witness ==
    /\ pc = "second_round"
    /\ batch_size = 2
    /\ Len(smiles_list) = 3
    /\ outcome[smiles_list[3][2]] = "success"
    /\ outcome[smiles_list[1][2]] = "read_exhausted"
    /\ files["intermediate_HSP"] = File(ResultTable)

\* The items of the round whose processing has produced an outcome.
Decided == {i \in IndicesOf(smiles_list) : outcome[i] # "pending"}

\* C18 (as claimed): between items, and when the run has ended, every item
\* with an outcome, whatever the outcome, has been followed by the inter-item
\* delay; when an invocation is made, every earlier item has; and a round of
\* B >= 1 batches that is over has taken exactly B - 1 inter-batch delays.
C18_Pacing ==
    /\ (BetweenItems \/ RunEnded) => item_delays = Cardinality(Decided)
    /\ pc \in {"invoke", "wait"} =>
           item_delays = Cardinality(Decided \ {original_index})
    /\ (RoundOver /\ Batches >= 1) => pauses = Batches - 1

\* C19: a pass of the read loop appends a record only from an Out.dat that
\* exists, is not empty and parses; an absent or empty Out.dat is reported as
\* not ready, is not parsed, raises nothing and gives no record; a pass
\* without record waits retry_delay and uses up one read; and after
\* max_output_retries passes without record the item is read-exhausted,
\* which is reached by the loop ending and not by an exception.
C19_ReadOutcomes ==
    [][/\ (pc = "read_loop" /\ attempt_log' # attempt_log) =>
              /\ attempt_log'.reads = attempt_log.reads + 1
              /\ all_hsp_full' # all_hsp_full =>
                     /\ out_dat'.kind = "record"
                     /\ attempt_log'.last_read = "record"
                     /\ all_hsp_full' =
                            Append(all_hsp_full, <<out_dat', original_index>>)
              /\ out_dat'.kind \in {"absent", "empty"} =>
                     /\ attempt_log'.last_read = "not_ready"
                     /\ all_hsp_full' = all_hsp_full
              /\ out_dat'.kind = "unparseable" =>
                     /\ attempt_log'.last_read = "parse_error"
                     /\ all_hsp_full' = all_hsp_full
              /\ out_dat'.kind # "record" =>
                     /\ attempt_log'.waits = attempt_log.waits + 1
                     /\ output_retry' = output_retry + 1
                     /\ pc' = IF output_retry + 1 < max_output_retries
                              THEN "read_loop" ELSE "after_read"
                     /\ error' = None
       /\ (pc = "after_read" /\ ~success) =>
              /\ output_retry = max_output_retries
              /\ attempt_log.reads = max_output_retries
              /\ outcome'[original_index] = "read_exhausted"
              /\ pc' \in {"after_read", "finally"}
              /\ error' = None]_vars

\* C19 witness: the reads of an invocation are exhausted, the last pass having
\* found an empty Out.dat.
C19_Witness ==
    /\ pc = "finally"
    /\ outcome[original_index] = "read_exhausted"
    /\ out_dat = Empty
    /\ attempt_log.last_read = "not_ready"
    /\ attempt_log.reads = max_output_retries

\* C20 (as claimed): the list gathered for the retry round holds no original
\* index twice.
C20_RetryListNoDuplicates ==
    \A i, j \in 1..Len(failed_output_smiles) :
        failed_output_smiles[i][2] = failed_output_smiles[j][2] => i = j

\* C21 (as claimed): every record on the list of results was written by an
\* invocation of the tool for the original index it is stored under.
C21_RecordIsOwn ==
    \A j \in 1..Len(all_hsp_full) :
        all_hsp_full[j][1].of = all_hsp_full[j][2]

\* The indices the final summary reports as invalid or skipped (line 359:
\* set(invalid_smiles_indices + invalid_cas_indices)).
ReportedInvalid ==
    {invalid_smiles_indices[j] : j \in 1..Len(invalid_smiles_indices)}
        \cup {invalid_cas_indices[j] : j \in 1..Len(invalid_cas_indices)}

\* C22 (as claimed): when a run whose initial round was completed has ended,
\* the indices reported as invalid or skipped and the indices that hold a
\* record are disjoint and together are all of 0..N-1.
C22_Partition ==
    (RunEnded /\ error = "NameError") =>
        /\ ReportedInvalid \cap IndicesOf(all_hsp_full) = {}
        /\ ReportedInvalid \cup IndicesOf(all_hsp_full) = 0..(N - 1)

====
